---- MODULE Spec2Model ----
(***************************************************************************)
(* Kairos: the token route of the web front end                            *)
(* (src/web/src/app/api/token/route.ts).  GET validates the two query      *)
(* parameters, reads the LiveKit configuration from the environment,       *)
(* asks the room service to create the room and signs an access token.     *)
(* Several invocations of GET run concurrently; each is cut at its two     *)
(* awaits (createRoom, toJwt).                                             *)
(***************************************************************************)
EXTENDS Integers, Sequences, FiniteSets, TLC

\* Number of GET invocations that can be in flight at the same time.
NumRequests == 2

Requests == 1..NumRequests

(***************************************************************************)
(* Values.  A string is a sequence of characters; a value of type          *)
(* string | null (searchParams.get) or string | undefined (process.env)    *)
(* is Null or Str(s).                                                      *)
(***************************************************************************)
Null == [present |-> FALSE, str |-> <<>>]

Str(s) == [present |-> TRUE, str |-> s]

\* The strings a caller sends as ?room= : empty, whitespace only, a name.
RoomStrings == {<<>>, <<" ">>, <<"a">>}

\* The strings a caller sends as ?username= : empty, two names.
UserStrings == {<<>>, <<"x">>, <<"y">>}

RoomParams == {Null} \cup {Str(s) : s \in RoomStrings}

UserParams == {Null} \cup {Str(s) : s \in UserStrings}

\* What an environment variable can hold: unset, set to "", set to v.
EnvValues(v) == {Null, Str(<<>>), Str(v)}

Environments ==
    [LIVEKIT_API_KEY : EnvValues(<<"k">>),
     LIVEKIT_API_SECRET : EnvValues(<<"s">>),
     LIVEKIT_URL : EnvValues(<<"w">>)]

\* JavaScript's !v for v : string | null | undefined.
Falsy(v) == ~v.present \/ Len(v.str) = 0

\* String.prototype.trim on the one whitespace character of the alphabet.
RECURSIVE TrimStart(_)
TrimStart(s) ==
    IF Len(s) > 0 /\ Head(s) = " " THEN TrimStart(Tail(s)) ELSE s

RECURSIVE TrimEnd(_)
TrimEnd(s) ==
    IF Len(s) > 0 /\ s[Len(s)] = " "
    THEN TrimEnd(SubSeq(s, 1, Len(s) - 1))
    ELSE s

Trim(s) == TrimEnd(TrimStart(s))

(***************************************************************************)
(* The handler's pure parts.                                               *)
(***************************************************************************)
\* if (!roomName || !participantName)
MissingParams_And(roomName, participantName) ==
    Falsy(roomName) /\ Falsy(participantName)

MissingParams(roomName, participantName) ==
    Falsy(roomName) \/ Falsy(participantName)

\* if (!apiKey || !apiSecret || !livekitUrl)
ConfigMissing_And(apiKey, apiSecret, livekitUrl) ==
    Falsy(apiKey) /\ Falsy(apiSecret) /\ Falsy(livekitUrl)

ConfigMissing_NoUrl(apiKey, apiSecret, livekitUrl) ==
    Falsy(apiKey) \/ Falsy(apiSecret)

ConfigMissing(apiKey, apiSecret, livekitUrl) ==
    Falsy(apiKey) \/ Falsy(apiSecret) \/ Falsy(livekitUrl)

\* NextResponse.json(body, {status})
Json(status, body) == [kind |-> "json", status |-> status, body |-> body]

BadRequest == Json(400, [error |-> "Missing room or username"])

ServerConfigError == Json(500, [error |-> "Server configuration error"])

\* The handler's promise rejected: no NextResponse was produced.
Unhandled == [kind |-> "unhandled", status |-> 0, body |-> [error |-> "toJwt"]]

\* No response yet.
NoResponse == [kind |-> "none", status |-> 0, body |-> [error |-> ""]]

EmptyTimeout == 60 * 10

MaxParticipants == 2

\* ttl: "1h".  AccessToken takes a time span, a number and a unit, and
\* reads it as seconds.
TtlSpan == <<"1", "h">>

DigitValue(c) ==
    CASE c = "0" -> 0 [] c = "1" -> 1 [] c = "2" -> 2 [] c = "3" -> 3
      [] c = "4" -> 4 [] c = "5" -> 5 [] c = "6" -> 6 [] c = "7" -> 7
      [] c = "8" -> 8 [] c = "9" -> 9

RECURSIVE DecimalValue(_)
DecimalValue(digits) ==
    IF Len(digits) = 0
    THEN 0
    ELSE 10 * DecimalValue(SubSeq(digits, 1, Len(digits) - 1))
         + DigitValue(digits[Len(digits)])

UnitSeconds(u) ==
    CASE u = "s" -> 1
      [] u = "m" -> 60
      [] u = "h" -> 60 * 60
      [] u = "d" -> 24 * 60 * 60

Secs(span) ==
    DecimalValue(SubSeq(span, 1, Len(span) - 1)) * UnitSeconds(span[Len(span)])

Ttl_Minute == Secs(<<"1", "m">>)

Ttl == Secs(TtlSpan)

\* The argument of roomService.createRoom, as a call on the room service.
RoomRequest_Update(roomName, participantName) ==
    [op |-> "updateRoomMetadata",
     name |-> roomName,
     emptyTimeout |-> EmptyTimeout,
     maxParticipants |-> MaxParticipants,
     metadata |-> [created_by |-> participantName]]

RoomRequest_Capacity(roomName, participantName) ==
    [op |-> "createRoom",
     name |-> roomName,
     emptyTimeout |-> EmptyTimeout,
     maxParticipants |-> MaxParticipants + 1,
     metadata |-> [created_by |-> participantName]]

RoomRequest(roomName, participantName) ==
    [op |-> "createRoom",
     name |-> roomName,
     emptyTimeout |-> EmptyTimeout,
     maxParticipants |-> MaxParticipants,
     metadata |-> [created_by |-> participantName]]

\* The room a create call describes.
RoomOf(call) ==
    [name |-> call.name,
     emptyTimeout |-> call.emptyTimeout,
     maxParticipants |-> call.maxParticipants,
     metadata |-> call.metadata]

HasRoom(rs, name) == \E r \in rs : r.name = name

(***************************************************************************)
(* The room-management backend: create-or-no-op on createRoom; the two     *)
(* other calls of its interface replace or remove the named room.          *)
(***************************************************************************)
RoomService(rs, call) ==
    CASE call.op = "createRoom" ->
            IF HasRoom(rs, call.name) THEN rs ELSE rs \cup {RoomOf(call)}
      [] call.op = "updateRoomMetadata" ->
            {IF r.name = call.name
             THEN [r EXCEPT !.metadata = call.metadata]
             ELSE r : r \in rs}
      [] call.op = "deleteRoom" ->
            {r \in rs : r.name # call.name}

\* at.addGrant({...}) of the try block.
TryGrant_NoAgent(roomName) ==
    [roomJoin |-> TRUE,
     room |-> roomName,
     canPublish |-> TRUE,
     canSubscribe |-> TRUE,
     canPublishData |-> TRUE,
     agent |-> FALSE]

TryGrant(roomName) ==
    [roomJoin |-> TRUE,
     room |-> roomName,
     canPublish |-> TRUE,
     canSubscribe |-> TRUE,
     canPublishData |-> TRUE,
     agent |-> TRUE]

\* at.addGrant({...}) of the catch block.
CatchGrant_NoRoom(roomName) ==
    [roomJoin |-> TRUE,
     room |-> <<>>,
     canPublish |-> TRUE,
     canSubscribe |-> TRUE,
     canPublishData |-> TRUE,
     agent |-> TRUE]

CatchGrant(roomName) ==
    [roomJoin |-> TRUE,
     room |-> roomName,
     canPublish |-> TRUE,
     canSubscribe |-> TRUE,
     canPublishData |-> TRUE,
     agent |-> TRUE]

\* new AccessToken(apiKey, apiSecret, {identity, ttl}) with its grant added.
AccessToken(apiKey, apiSecret, identity, grant) ==
    [apiKey |-> apiKey,
     apiSecret |-> apiSecret,
     identity |-> identity,
     ttl |-> Ttl,
     grants |-> grant]

\* The claims of the signed token at.toJwt() resolves to, and its key.
ToJwt(at) ==
    [iss |-> at.apiKey,
     sub |-> at.identity,
     ttl |-> at.ttl,
     video |-> at.grants,
     signedWith |-> at.apiSecret]

\* The exp claim toJwt gives a token signed at time t.
ExpiresAt(token, t) == t + token.ttl

\* return NextResponse.json({token, url: livekitUrl}) of the try block.
TryResponse(token, livekitUrl) ==
    Json(200, [token |-> token, url |-> livekitUrl])

\* return NextResponse.json({token, url: livekitUrl}) of the catch block.
CatchResponse_Surface(token, livekitUrl) ==
    Json(500, [error |-> "Failed to create room"])

CatchResponse(token, livekitUrl) ==
    Json(200, [token |-> token, url |-> livekitUrl])

(***************************************************************************)
(* State.                                                                  *)
(***************************************************************************)
VARIABLES
    env,            \* process.env: the three LIVEKIT_ variables
    rooms,          \* the rooms the backend holds
    pc,             \* where each invocation of GET stands
    params,         \* its query parameters room and username
    cfg,            \* its locals apiKey, apiSecret, livekitUrl
    createCalls,    \* how often it has called roomService.createRoom
    createOutcome,  \* how that call ended: "none", "resolved", "rejected"
    signCalls,      \* how often it has called at.toJwt
    resp            \* what it returned

\* The clock, and the page of the browser (src/web/src/app/page.tsx).
VARIABLES
    now,              \* the server's clock, in seconds
    issuedAt,         \* when each invocation last called at.toJwt
    connectionState,  \* useState<ConnectionState>("disconnected")
    clientToken,      \* useState<string | null>(null): token
    serverUrl,        \* useState<string | null>(null)
    userName,         \* useState("")
    error,            \* useState<string | null>(null)
    inflight,         \* the fetches of /api/token that have not settled
    reading           \* the responses whose body is being read, by response.ok

clockVars == <<now, issuedAt>>

pageVars ==
    <<connectionState, clientToken, serverUrl, userName, error, inflight, reading>>

vars ==
    <<env, rooms, pc, params, cfg, createCalls, createOutcome, signCalls, resp,
      clockVars, pageVars>>

\* string | null of the page's state: no error, or a message.
NoError == [set |-> FALSE, message |-> ""]

ErrorMessage(m) == [set |-> TRUE, message |-> m]

NoParams == [room |-> Null, username |-> Null]

NoConfig == [apiKey |-> Null, apiSecret |-> Null, livekitUrl |-> Null]

\* The backend outlives the web process: it may still hold a room that an
\* earlier process of this handler created.
EarlierRooms == {RoomOf(RoomRequest(<<"a">>, <<"x">>))}

Init ==
    /\ env \in Environments
    /\ rooms \in SUBSET EarlierRooms
    /\ pc = [q \in Requests |-> "idle"]
    /\ params = [q \in Requests |-> NoParams]
    /\ cfg = [q \in Requests |-> NoConfig]
    /\ createCalls = [q \in Requests |-> 0]
    /\ createOutcome = [q \in Requests |-> "none"]
    /\ signCalls = [q \in Requests |-> 0]
    /\ resp = [q \in Requests |-> NoResponse]
    /\ now = 0
    /\ issuedAt = [q \in Requests |-> 0]
    /\ connectionState = "disconnected"
    /\ clientToken = Null
    /\ serverUrl = Null
    /\ userName = <<>>
    /\ error = NoError
    /\ inflight = 0
    /\ reading = [ok \in BOOLEAN |-> 0]

\* The try-block token of invocation q, and the catch-block one.
TryToken(q) ==
    AccessToken(cfg[q].apiKey.str, cfg[q].apiSecret.str,
                params[q].username.str, TryGrant(params[q].room.str))

CatchToken_ShortTtl(q) ==
    [AccessToken(cfg[q].apiKey.str, cfg[q].apiSecret.str,
                 params[q].username.str, CatchGrant(params[q].room.str))
        EXCEPT !.ttl = 60 * 10]

CatchToken(q) ==
    AccessToken(cfg[q].apiKey.str, cfg[q].apiSecret.str,
                params[q].username.str, CatchGrant(params[q].room.str))

\* Lines 5-13: a request arrives without room or username.
RejectParams(q, room, username) ==
    /\ pc[q] = "idle"
    /\ MissingParams(room, username)
    /\ pc' = [pc EXCEPT ![q] = "done"]
    /\ params' = [params EXCEPT ![q] = [room |-> room, username |-> username]]
    /\ resp' = [resp EXCEPT ![q] = BadRequest]
    /\ UNCHANGED <<clockVars, pageVars, env, rooms, cfg, createCalls,
                   createOutcome, signCalls>>

\* Lines 5-25: the parameters are there, the configuration is not.
RejectConfig(q, room, username) ==
    /\ pc[q] = "idle"
    /\ ~MissingParams(room, username)
    /\ ConfigMissing(env.LIVEKIT_API_KEY, env.LIVEKIT_API_SECRET, env.LIVEKIT_URL)
    /\ pc' = [pc EXCEPT ![q] = "done"]
    /\ params' = [params EXCEPT ![q] = [room |-> room, username |-> username]]
    /\ cfg' = [cfg EXCEPT ![q] = [apiKey |-> env.LIVEKIT_API_KEY,
                                  apiSecret |-> env.LIVEKIT_API_SECRET,
                                  livekitUrl |-> env.LIVEKIT_URL]]
    /\ resp' = [resp EXCEPT ![q] = ServerConfigError]
    /\ UNCHANGED <<clockVars, pageVars, env, rooms, createCalls, createOutcome, signCalls>>

\* Lines 5-36: both checks pass and createRoom is called; GET awaits it.
CallCreateRoom(q, room, username) ==
    /\ pc[q] = "idle"
    /\ ~MissingParams(room, username)
    /\ ~ConfigMissing(env.LIVEKIT_API_KEY, env.LIVEKIT_API_SECRET, env.LIVEKIT_URL)
    /\ pc' = [pc EXCEPT ![q] = "createRoom"]
    /\ params' = [params EXCEPT ![q] = [room |-> room, username |-> username]]
    /\ cfg' = [cfg EXCEPT ![q] = [apiKey |-> env.LIVEKIT_API_KEY,
                                  apiSecret |-> env.LIVEKIT_API_SECRET,
                                  livekitUrl |-> env.LIVEKIT_URL]]
    /\ createCalls' = [createCalls EXCEPT ![q] = @ + 1]
    /\ UNCHANGED <<clockVars, pageVars, env, rooms, createOutcome, signCalls, resp>>

\* GET(request): lines 4-36, up to the first await.
Receive(q) ==
    \E room \in RoomParams, username \in UserParams :
        \/ RejectParams(q, room, username)
        \/ RejectConfig(q, room, username)
        \/ CallCreateRoom(q, room, username)

\* Lines 31-53: createRoom resolves; the token is built and toJwt called.
CreateRoomResolves(q) ==
    /\ pc[q] = "createRoom"
    /\ rooms' = RoomService(rooms, RoomRequest(params[q].room.str,
                                               params[q].username.str))
    /\ createOutcome' = [createOutcome EXCEPT ![q] = "resolved"]
    /\ signCalls' = [signCalls EXCEPT ![q] = @ + 1]
    /\ pc' = [pc EXCEPT ![q] = "toJwtTry"]
    /\ issuedAt' = [issuedAt EXCEPT ![q] = now]
    /\ UNCHANGED <<now, pageVars, env, params, cfg, createCalls, resp>>

\* Lines 31, 59-77: createRoom rejects, for any cause, whether or not the
\* backend carried the call out; the catch block builds the token.
CreateRoomRejects(q) ==
    /\ pc[q] = "createRoom"
    /\ \E applied \in BOOLEAN :
          rooms' = IF applied
                   THEN RoomService(rooms, RoomRequest(params[q].room.str,
                                                       params[q].username.str))
                   ELSE rooms
    /\ createOutcome' = [createOutcome EXCEPT ![q] = "rejected"]
    /\ signCalls' = [signCalls EXCEPT ![q] = @ + 1]
    /\ pc' = [pc EXCEPT ![q] = "toJwtCatch"]
    /\ issuedAt' = [issuedAt EXCEPT ![q] = now]
    /\ UNCHANGED <<now, pageVars, env, params, cfg, createCalls, resp>>

\* Lines 53-58: toJwt of the try block resolves.
TryToJwtResolves(q) ==
    /\ pc[q] = "toJwtTry"
    /\ resp' = [resp EXCEPT ![q] =
                   TryResponse(ToJwt(TryToken(q)), cfg[q].livekitUrl.str)]
    /\ pc' = [pc EXCEPT ![q] = "done"]
    /\ UNCHANGED <<clockVars, pageVars, env, rooms, params, cfg, createCalls,
                   createOutcome, signCalls>>

\* Lines 53, 59-77: toJwt of the try block rejects; the catch block runs.
TryToJwtRejects(q) ==
    /\ pc[q] = "toJwtTry"
    /\ signCalls' = [signCalls EXCEPT ![q] = @ + 1]
    /\ pc' = [pc EXCEPT ![q] = "toJwtCatch"]
    /\ issuedAt' = [issuedAt EXCEPT ![q] = now]
    /\ UNCHANGED <<now, pageVars, env, rooms, params, cfg, createCalls,
                   createOutcome, resp>>

\* Lines 77-82: toJwt of the catch block resolves.
CatchToJwtResolves(q) ==
    /\ pc[q] = "toJwtCatch"
    /\ resp' = [resp EXCEPT ![q] =
                   CatchResponse(ToJwt(CatchToken(q)), cfg[q].livekitUrl.str)]
    /\ pc' = [pc EXCEPT ![q] = "done"]
    /\ UNCHANGED <<clockVars, pageVars, env, rooms, params, cfg, createCalls,
                   createOutcome, signCalls>>

\* Line 77: toJwt of the catch block rejects; nothing catches it.
CatchToJwtRejects(q) ==
    /\ pc[q] = "toJwtCatch"
    /\ resp' = [resp EXCEPT ![q] = Unhandled]
    /\ pc' = [pc EXCEPT ![q] = "done"]
    /\ UNCHANGED <<clockVars, pageVars, env, rooms, params, cfg, createCalls,
                   createOutcome, signCalls>>

\* The invocation is over; the next request is a fresh invocation of GET.
Return(q) ==
    /\ pc[q] = "done"
    /\ pc' = [pc EXCEPT ![q] = "idle"]
    /\ params' = [params EXCEPT ![q] = NoParams]
    /\ cfg' = [cfg EXCEPT ![q] = NoConfig]
    /\ createCalls' = [createCalls EXCEPT ![q] = 0]
    /\ createOutcome' = [createOutcome EXCEPT ![q] = "none"]
    /\ signCalls' = [signCalls EXCEPT ![q] = 0]
    /\ resp' = [resp EXCEPT ![q] = NoResponse]
    /\ issuedAt' = [issuedAt EXCEPT ![q] = 0]
    /\ UNCHANGED <<now, pageVars, env, rooms>>

Next ==
    \E q \in Requests :
        \/ Receive(q)
        \/ CreateRoomResolves(q)
        \/ CreateRoomRejects(q)
        \/ TryToJwtResolves(q)
        \/ TryToJwtRejects(q)
        \/ CatchToJwtResolves(q)
        \/ CatchToJwtRejects(q)
        \/ Return(q)

Spec == Init /\ [][Next]_vars

(***************************************************************************)
(* The environment changes while the process runs: an operator sets or     *)
(* removes one of the three variables between or during requests.          *)
(***************************************************************************)
SetEnv(name, v) ==
    /\ env[name] # v
    /\ env' = [env EXCEPT ![name] = v]
    /\ UNCHANGED <<clockVars, pageVars, rooms, pc, params, cfg, createCalls, createOutcome,
                   signCalls, resp>>

\* The requests sent while the environment changes: one room, one username,
\* or no room at all.
ReceiveUnderEnv(q) ==
    \E room \in {Null, Str(<<"a">>)}, username \in {Str(<<"x">>)} :
        \/ RejectParams(q, room, username)
        \/ RejectConfig(q, room, username)
        \/ CallCreateRoom(q, room, username)

NextEnv ==
    \/ \E q \in Requests :
          \/ ReceiveUnderEnv(q)
          \/ CreateRoomResolves(q)
          \/ CreateRoomRejects(q)
          \/ TryToJwtResolves(q)
          \/ TryToJwtRejects(q)
          \/ CatchToJwtResolves(q)
          \/ CatchToJwtRejects(q)
          \/ Return(q)
    \/ \E v \in {Null, Str(<<"k">>)} : SetEnv("LIVEKIT_API_KEY", v)
    \/ \E v \in {Null, Str(<<"s">>)} : SetEnv("LIVEKIT_API_SECRET", v)
    \/ \E v \in {Null, Str(<<"w">>)} : SetEnv("LIVEKIT_URL", v)

\* The process starts with each variable set or unset.
InitEnv ==
    /\ Init
    /\ env.LIVEKIT_API_KEY \in {Null, Str(<<"k">>)}
    /\ env.LIVEKIT_API_SECRET \in {Null, Str(<<"s">>)}
    /\ env.LIVEKIT_URL \in {Null, Str(<<"w">>)}

SpecEnv == InitEnv /\ [][NextEnv]_vars

(***************************************************************************)
(* Time passes: one invocation of GET at a time, under a clock that ticks  *)
(* by the minute.                                                          *)
(***************************************************************************)
\* How many minutes the clock runs.
MaxMinutes == 62

Tick ==
    /\ now + 60 <= MaxMinutes * 60
    /\ now' = now + 60
    /\ UNCHANGED <<issuedAt, pageVars, env, rooms, pc, params, cfg, createCalls,
                   createOutcome, signCalls, resp>>

FirstRequest == CHOOSE q \in Requests : \A r \in Requests : q <= r

NextTtl ==
    \/ Receive(FirstRequest)
    \/ CreateRoomResolves(FirstRequest)
    \/ CreateRoomRejects(FirstRequest)
    \/ TryToJwtResolves(FirstRequest)
    \/ TryToJwtRejects(FirstRequest)
    \/ CatchToJwtResolves(FirstRequest)
    \/ CatchToJwtRejects(FirstRequest)
    \/ Return(FirstRequest)
    \/ Tick

SpecTtl == Init /\ [][NextTtl]_vars

(***************************************************************************)
(* The page (src/web/src/app/page.tsx): Home shows the form until it is    *)
(* connected and holds a token and a server url, then VoiceAgent.          *)
(* handleConnect runs up to its await of fetch in one step. When the fetch *)
(* resolves it runs on to its await of response.json(), and other          *)
(* callbacks run before the body has been read. When the body has been     *)
(* read, or either await rejects, the rest runs and its state updates are  *)
(* rendered together.                                                      *)
(***************************************************************************)
\* How many connect attempts may be pending at once before the user stops
\* pressing.
MaxFetches == 2

serverVars ==
    <<env, rooms, pc, params, cfg, createCalls, createOutcome, signCalls, resp>>

\* What the user types into the name field.
NameInputs == {<<>>, <<" ">>, <<"x">>}

\* A JSON body: the fields it lacks are undefined.
Body(tokenField, urlField, errorField) ==
    [token |-> tokenField, url |-> urlField, error |-> errorField]

\* How a fetch of /api/token settles: it rejects, with an Error or with
\* something else, or it resolves to a response whose body parses or not.
Rejection(isError) ==
    [kind |-> "rejects", isError |-> isError, ok |-> FALSE, parses |-> FALSE,
     data |-> Body(Null, Null, NoError)]

Response(ok, parses, data) ==
    [kind |-> "response", isError |-> FALSE, ok |-> ok, parses |-> parses,
     data |-> data]

FetchOutcomes ==
    {Rejection(TRUE), Rejection(FALSE),
     Response(TRUE, TRUE, Body(Str(<<"j">>), Str(<<"w">>), NoError)),
     Response(TRUE, FALSE, Body(Null, Null, NoError)),
     Response(FALSE, TRUE,
              Body(Null, Null, ErrorMessage("Missing room or username"))),
     Response(FALSE, TRUE,
              Body(Null, Null, ErrorMessage("Server configuration error"))),
     Response(FALSE, TRUE, Body(Null, Null, NoError)),
     Response(FALSE, FALSE, Body(Null, Null, NoError))}

\* data.error || "Failed to get token"
TokenErrorMessage(data) ==
    IF data.error.set /\ data.error.message # ""
    THEN data.error.message
    ELSE "Failed to get token"

\* What the try block of handleConnect throws for outcome o: "" when it
\* throws nothing, else the message the catch block finds in err.message.
Thrown(o) ==
    IF o.kind = "rejects" THEN "Failed to fetch"
    ELSE IF ~o.parses THEN "Unexpected token in JSON"
    ELSE IF ~o.ok THEN TokenErrorMessage(o.data)
    ELSE ""

\* Lines 55-58: setToken, setServerUrl, setConnectionState("connected").
ConnectSucceeded(data) ==
    [connectionState |-> "connected",
     clientToken |-> data.token,
     serverUrl |-> data.url,
     error |-> error]

\* Lines 59-62: setError, setConnectionState("disconnected").
ConnectFailed_StillConnecting(o) ==
    [connectionState |-> connectionState,
     clientToken |-> clientToken,
     serverUrl |-> serverUrl,
     error |-> ErrorMessage(IF o.kind = "rejects" /\ ~o.isError
                            THEN "Connection failed"
                            ELSE Thrown(o))]

ConnectFailed(o) ==
    [connectionState |-> "disconnected",
     clientToken |-> clientToken,
     serverUrl |-> serverUrl,
     error |-> ErrorMessage(IF o.kind = "rejects" /\ ~o.isError
                            THEN "Connection failed"
                            ELSE Thrown(o))]

\* Line 71: connectionState === "connected" && token && serverUrl
VoiceAgentShown ==
    connectionState = "connected" /\ ~Falsy(clientToken) /\ ~Falsy(serverUrl)

\* The calls of handleConnect that have not finished: at the await of fetch
\* or at the await of response.json().
Pending == inflight + reading[TRUE] + reading[FALSE]

\* Lines 35-48: handleConnect, up to the await of fetch.
HandleConnect ==
    IF Len(Trim(userName)) = 0
    THEN /\ error' = ErrorMessage("Please tell us who you are!")
         /\ UNCHANGED <<connectionState, clientToken, serverUrl, userName, inflight,
                        reading>>
    ELSE /\ Pending < MaxFetches
         /\ error' = NoError
         /\ connectionState' = "connecting"
         /\ inflight' = inflight + 1
         /\ UNCHANGED <<clientToken, serverUrl, userName, reading>>

\* Line 163: onChange of the name field.
TypeName(s) ==
    /\ ~VoiceAgentShown
    /\ userName # s
    /\ userName' = s
    /\ UNCHANGED <<connectionState, clientToken, serverUrl, error, inflight, reading>>
    /\ UNCHANGED <<serverVars, clockVars>>

\* Lines 177-180: the button, disabled while connecting.
ClickConnect ==
    /\ ~VoiceAgentShown
    /\ connectionState # "connecting"
    /\ HandleConnect
    /\ UNCHANGED <<serverVars, clockVars>>

\* Line 164: onKeyDown of the name field, e.key === "Enter".
PressEnter ==
    /\ ~VoiceAgentShown
    /\ HandleConnect
    /\ UNCHANGED <<serverVars, clockVars>>

\* What the rest of handleConnect does once outcome o is known.
Finish(o) ==
    LET after == IF Thrown(o) = ""
                 THEN ConnectSucceeded(o.data)
                 ELSE ConnectFailed(o)
    IN  /\ connectionState' = after.connectionState
        /\ clientToken' = after.clientToken
        /\ serverUrl' = after.serverUrl
        /\ error' = after.error

\* Lines 46-48, 59-62: the fetch rejects and the catch block runs.
FetchRejects(o) ==
    /\ o.kind = "rejects"
    /\ inflight > 0
    /\ inflight' = inflight - 1
    /\ Finish(o)
    /\ UNCHANGED <<userName, reading>>
    /\ UNCHANGED <<serverVars, clockVars>>

\* Lines 46-51, 55: the fetch resolves; handleConnect tests response.ok and
\* stops again at await response.json(), in either branch.
FetchResolves(ok) ==
    /\ inflight > 0
    /\ inflight' = inflight - 1
    /\ reading' = [reading EXCEPT ![ok] = @ + 1]
    /\ UNCHANGED <<connectionState, clientToken, serverUrl, userName, error>>
    /\ UNCHANGED <<serverVars, clockVars>>

\* Lines 51-62: response.json() settles and the rest of handleConnect runs.
BodySettles(o) ==
    /\ o.kind = "response"
    /\ reading[o.ok] > 0
    /\ reading' = [reading EXCEPT ![o.ok] = @ - 1]
    /\ Finish(o)
    /\ UNCHANGED <<userName, inflight>>
    /\ UNCHANGED <<serverVars, clockVars>>

\* Lines 65-69: handleDisconnect, called by VoiceAgent.
HandleDisconnect ==
    /\ VoiceAgentShown
    /\ clientToken' = Null
    /\ serverUrl' = Null
    /\ connectionState' = "disconnected"
    /\ UNCHANGED <<userName, error, inflight, reading>>
    /\ UNCHANGED <<serverVars, clockVars>>

NextPage ==
    \/ \E s \in NameInputs : TypeName(s)
    \/ ClickConnect
    \/ PressEnter
    \/ \E o \in FetchOutcomes : FetchRejects(o)
    \/ \E ok \in BOOLEAN : FetchResolves(ok)
    \/ \E o \in FetchOutcomes : BodySettles(o)
    \/ HandleDisconnect

SpecPage == Init /\ [][NextPage]_vars

(***************************************************************************)
(* Properties.                                                             *)
(***************************************************************************)
\* A parameter or configuration value that is missing or the empty string.
AbsentOrEmpty(v) == v = Null \/ v = Str(<<>>)

InvalidParams(q) ==
    AbsentOrEmpty(params[q].room) \/ AbsentOrEmpty(params[q].username)

EnvIncomplete ==
    \/ AbsentOrEmpty(env.LIVEKIT_API_KEY)
    \/ AbsentOrEmpty(env.LIVEKIT_API_SECRET)
    \/ AbsentOrEmpty(env.LIVEKIT_URL)

\* The grant set the specification fixes for a token of room r.
FixedGrants(r) ==
    [roomJoin |-> TRUE, room |-> r, canPublish |-> TRUE,
     canSubscribe |-> TRUE, canPublishData |-> TRUE, agent |-> TRUE]

\* Invocation q has returned 200 with a token and a url.
Served(q) == pc[q] = "done" /\ resp[q].kind = "json" /\ resp[q].status = 200

\* C1: a request whose room or username is missing or empty is answered 400
\* {error: "Missing room or username"}; it never calls createRoom and never
\* signs a token.
C1_MissingParamsRejected ==
    \A q \in Requests :
        (pc[q] # "idle" /\ InvalidParams(q)) =>
            /\ pc[q] = "done"
            /\ resp[q] = Json(400, [error |-> "Missing room or username"])
            /\ createCalls[q] = 0
            /\ createOutcome[q] = "none"
            /\ signCalls[q] = 0

\* C1 witness: with the configuration complete, a request with an empty room
\* and a username has been answered 400.
C1_Witness ==
    /\ ~EnvIncomplete
    /\ \E q \in Requests :
          /\ pc[q] = "done"
          /\ params[q].room = Str(<<>>)
          /\ params[q].username = Str(<<"x">>)
          /\ resp[q].status = 400

\* C2 as stated: with a configuration value absent, every request, valid or
\* not, is answered with the 500 configuration error.
C2_Original ==
    \A q \in Requests :
        (pc[q] # "idle" /\ EnvIncomplete) =>
            /\ pc[q] = "done"
            /\ resp[q] = Json(500, [error |-> "Server configuration error"])
            /\ createCalls[q] = 0
            /\ signCalls[q] = 0

\* C2 amended: with a configuration value absent, a request with room and
\* username is answered with the 500 configuration error, a request without
\* one of them with the 400 error, and neither calls createRoom or signs.
C2_ConfigGuard ==
    \A q \in Requests :
        (pc[q] # "idle" /\ EnvIncomplete) =>
            /\ pc[q] = "done"
            /\ resp[q] = IF InvalidParams(q)
                         THEN Json(400, [error |-> "Missing room or username"])
                         ELSE Json(500, [error |-> "Server configuration error"])
            /\ createCalls[q] = 0
            /\ createOutcome[q] = "none"
            /\ signCalls[q] = 0

\* C2 witness: only the API secret is unset, and a request with room and
\* username has been answered 500.
C2_Witness ==
    /\ env.LIVEKIT_API_KEY = Str(<<"k">>)
    /\ env.LIVEKIT_API_SECRET = Null
    /\ env.LIVEKIT_URL = Str(<<"w">>)
    /\ \E q \in Requests :
          /\ pc[q] = "done"
          /\ ~InvalidParams(q)
          /\ resp[q].status = 500

\* C3: a 200 response is given only to a request with room and username under
\* a complete configuration; its url is the configured endpoint, its token is
\* issued to the username with exactly the fixed grants on the requested room.
C3_TokenContents ==
    \A q \in Requests :
        Served(q) =>
            /\ ~InvalidParams(q)
            /\ ~EnvIncomplete
            /\ resp[q].body.url = env.LIVEKIT_URL.str
            /\ resp[q].body.token.sub = params[q].username.str
            /\ resp[q].body.token.video = FixedGrants(params[q].room.str)
            /\ resp[q].body.token.iss = env.LIVEKIT_API_KEY.str
            /\ resp[q].body.token.signedWith = env.LIVEKIT_API_SECRET.str

\* C3 witness: two requests have been served, one after createRoom resolved
\* and one after it rejected.
C3_Witness ==
    \E q1, q2 \in Requests :
        /\ Served(q1) /\ createOutcome[q1] = "resolved" /\ signCalls[q1] = 1
        /\ Served(q2) /\ createOutcome[q2] = "rejected"

\* C4: a request whose createRoom rejected goes on to sign, once, and when
\* that signing resolves its response is the very response of the path on
\* which createRoom resolves: 200 with the same token and url.
C4_CreateFailureHidden ==
    \A q \in Requests :
        createOutcome[q] = "rejected" =>
            /\ pc[q] \in {"toJwtCatch", "done"}
            /\ signCalls[q] = 1
            /\ (pc[q] = "done" /\ resp[q] # Unhandled) =>
                  /\ resp[q].status = 200
                  /\ resp[q] = TryResponse(ToJwt(TryToken(q)), env.LIVEKIT_URL.str)

\* C4 witness: createRoom rejected without the room being created, and the
\* request was served all the same.
C4_Witness ==
    \E q \in Requests :
        /\ Served(q)
        /\ createOutcome[q] = "rejected"
        /\ ~HasRoom(rooms, params[q].room.str)

\* Two distinct invocations for the same room under different usernames.
SameRoomPair(q1, q2) ==
    /\ q1 # q2
    /\ ~InvalidParams(q1)
    /\ ~InvalidParams(q2)
    /\ params[q1].room = params[q2].room
    /\ params[q1].username # params[q2].username

\* C5: of two requests for the same room under different usernames, in every
\* interleaving, each one whose own signing resolves ends with 200 and a token
\* for that room and its own username, whether its createRoom resolved or
\* rejected; and while one awaits createRoom the other is never held back.
C5_SameRoomBothServed ==
    \A q1, q2 \in Requests :
        (SameRoomPair(q1, q2) /\ ~EnvIncomplete) =>
            /\ (pc[q1] = "done" /\ resp[q1] # Unhandled) =>
                  /\ resp[q1].status = 200
                  /\ resp[q1].body.token.sub = params[q1].username.str
                  /\ resp[q1].body.token.video.roomJoin
                  /\ resp[q1].body.token.video.room = params[q2].room.str
                  /\ resp[q1].body.token.signedWith = env.LIVEKIT_API_SECRET.str
            /\ (pc[q1] = "createRoom" /\ pc[q2] = "createRoom") =>
                  /\ ENABLED CreateRoomResolves(q1)
                  /\ ENABLED CreateRoomResolves(q2)

\* C5 witness: x and y asked for room a; one createRoom resolved, the other
\* rejected, and both were served.
C5_Witness ==
    \E q1, q2 \in Requests :
        /\ SameRoomPair(q1, q2)
        /\ params[q1].room = Str(<<"a">>)
        /\ Served(q1) /\ createOutcome[q1] = "resolved"
        /\ Served(q2) /\ createOutcome[q2] = "rejected"
        /\ HasRoom(rooms, <<"a">>)

\* No two rooms of rs have the same name.
OnePerName(rs) == \A r1, r2 \in rs : r1.name = r2.name => r1 = r2

\* C6: the backend holds at most one room per room name, and no step of the
\* handler removes a room or changes a room that exists.
C6_RoomsUniqueAndStable ==
    [][OnePerName(rooms) /\ OnePerName(rooms') /\ rooms \subseteq rooms']_vars

\* C6 witness: room a, created for x, is still held as created after y's
\* createRoom for it resolved, next to a second room.
C6_Witness ==
    /\ RoomOf(RoomRequest(<<"a">>, <<"x">>)) \in rooms
    /\ HasRoom(rooms, <<" ">>)
    /\ \E q \in Requests :
          /\ params[q] = [room |-> Str(<<"a">>), username |-> Str(<<"y">>)]
          /\ createOutcome[q] = "resolved"

\* Room name r exists in the backend with the fixed policy.
FixedPolicyRoom(r) ==
    \E m \in rooms :
        /\ m.name = r
        /\ m.maxParticipants = 2
        /\ m.emptyTimeout = 600
        /\ m.metadata.created_by \in UserStrings \ {<<>>}

\* C7 as stated: whenever a token for room r is handed out, room r exists
\* with the fixed policy.
C7_Original ==
    \A q \in Requests : Served(q) => FixedPolicyRoom(params[q].room.str)

\* C7 amended: a token for room r is handed out only after the request's one
\* createRoom call for r has ended; room r exists with the fixed policy when
\* that call resolved, and need not exist when it rejected.
C7_ProvisionedBeforeToken ==
    \A q \in Requests :
        Served(q) =>
            /\ createCalls[q] = 1
            /\ createOutcome[q] \in {"resolved", "rejected"}
            /\ createOutcome[q] = "resolved" =>
                  FixedPolicyRoom(resp[q].body.token.video.room)

\* C7 witness: y holds a token for a room that its own createRoom call
\* created.
C7_Witness ==
    \E q \in Requests :
        /\ Served(q)
        /\ createOutcome[q] = "resolved"
        /\ RoomOf(RoomRequest(params[q].room.str, params[q].username.str)) \in rooms
        /\ params[q].username = Str(<<"y">>)

\* C8 as stated: every request ends with 200 {token, url} or with a JSON
\* {error} response of status 4xx or 5xx.
C8_Original ==
    \A q \in Requests :
        pc[q] = "done" =>
            \/ Served(q) /\ DOMAIN resp[q].body = {"token", "url"}
            \/ /\ resp[q].kind = "json"
               /\ resp[q].status \in 400..599
               /\ DOMAIN resp[q].body = {"error"}

\* C9 as stated: a request calls createRoom at most once and toJwt at most
\* once.
C9_Original ==
    \A q \in Requests : createCalls[q] <= 1 /\ signCalls[q] <= 1

\* A parameter that is missing or empty once trimmed.
EmptyAfterTrim(v) == v = Null \/ Trim(v.str) = <<>>

\* C10 as stated: a request whose room or username is empty after trimming is
\* answered 400 before any createRoom or signing.
C10_Original ==
    \A q \in Requests :
        (pc[q] # "idle" /\ (\/ EmptyAfterTrim(params[q].room)
                            \/ EmptyAfterTrim(params[q].username))) =>
            /\ pc[q] = "done"
            /\ resp[q] = Json(400, [error |-> "Missing room or username"])
            /\ createCalls[q] = 0
            /\ signCalls[q] = 0

\* The three values of an environment, as the handler's locals hold them.
ConfigOf(e) ==
    [apiKey |-> e.LIVEKIT_API_KEY,
     apiSecret |-> e.LIVEKIT_API_SECRET,
     livekitUrl |-> e.LIVEKIT_URL]

\* C11: whatever earlier requests saw, a request with room and username is
\* decided by the environment as it is when the request arrives: answered
\* with the 500 configuration error when a value is absent then, and taken on
\* to createRoom with the values of that moment when all three are set.
C11_ConfigReadPerRequest ==
    [][\A q \in Requests :
          (/\ pc[q] = "idle"
           /\ pc'[q] # "idle"
           /\ ~AbsentOrEmpty(params'[q].room)
           /\ ~AbsentOrEmpty(params'[q].username)) =>
              IF EnvIncomplete
              THEN /\ pc'[q] = "done"
                   /\ resp'[q] = Json(500, [error |-> "Server configuration error"])
                   /\ createCalls'[q] = 0
              ELSE /\ pc'[q] = "createRoom"
                   /\ cfg'[q] = ConfigOf(env)
                   /\ createCalls'[q] = 1]_vars

\* C11 witness: one request was answered 500 while the secret was unset; the
\* secret was then set and a later request has been served, in the same run.
C11_Witness ==
    \E q1, q2 \in Requests :
        /\ pc[q1] = "done"
        /\ resp[q1].status = 500
        /\ cfg[q1].apiSecret = Null
        /\ ~EnvIncomplete
        /\ Served(q2)
        /\ cfg[q2] = ConfigOf(env)

\* Invocation q was served by the try block after createRoom resolved.
ServedByTry(q) ==
    Served(q) /\ createOutcome[q] = "resolved" /\ signCalls[q] = 1

\* Invocation q was served by the catch block after createRoom rejected.
ServedAfterRejection(q) == Served(q) /\ createOutcome[q] = "rejected"

\* C12: for the same identity, room and secret, the token issued after
\* createRoom resolved and the token issued after createRoom rejected have
\* the same identity, the same TTL and the same grants; and an invocation
\* that is over leaves nothing of its token behind.
C12_IssuanceIgnoresProvisioning ==
    /\ \A q1, q2 \in Requests :
          (/\ ServedByTry(q1)
           /\ ServedAfterRejection(q2)
           /\ params[q1] = params[q2]
           /\ cfg[q1] = cfg[q2]) =>
              /\ resp[q1].body.token.sub = resp[q2].body.token.sub
              /\ resp[q1].body.token.ttl = resp[q2].body.token.ttl
              /\ resp[q1].body.token.video = resp[q2].body.token.video
              /\ resp[q1].body.token.signedWith = resp[q2].body.token.signedWith
    /\ \A q \in Requests :
          pc[q] = "idle" =>
              /\ resp[q] = NoResponse
              /\ params[q] = NoParams
              /\ cfg[q] = NoConfig
              /\ signCalls[q] = 0

\* C12 witness: x asked twice for room a; one request was served after
\* createRoom resolved, the other after it rejected.
C12_Witness ==
    \E q1, q2 \in Requests :
        /\ ServedByTry(q1)
        /\ ServedAfterRejection(q2)
        /\ params[q1] = [room |-> Str(<<"a">>), username |-> Str(<<"x">>)]
        /\ params[q2] = params[q1]

\* A token with expiry exp is accepted at time t.
ValidAt(exp, t) == t < exp

\* C13: a token handed out for a signing at time T, by the try block or by
\* the catch block and whatever the room and username, expires at T plus one
\* hour: it is valid at T + 59 minutes, expired at T + 61 minutes, and valid
\* now exactly when less than an hour has passed since T.
C13_TokenLivesOneHour ==
    \A q \in Requests :
        Served(q) =>
            LET T == issuedAt[q]
                exp == ExpiresAt(resp[q].body.token, T)
            IN  /\ exp = T + 3600
                /\ ValidAt(exp, T + 59 * 60)
                /\ ~ValidAt(exp, T + 61 * 60)
                /\ ValidAt(exp, now) <=> now < T + 60 * 60

\* C13 witness: a token signed by the catch block at minute 1 is held at
\* minute 62, expired.
C13_Witness ==
    \E q \in Requests :
        /\ ServedAfterRejection(q)
        /\ issuedAt[q] = 60
        /\ now = 60 + 61 * 60
        /\ ~ValidAt(ExpiresAt(resp[q].body.token, issuedAt[q]), now)


\* C14: in the page at most one token request is in flight at any time:
\* while connectionState is "connecting" neither the button nor the Enter
\* key in the name field starts a second fetch.
C14_Original ==
    /\ inflight <= 1
    /\ connectionState = "connecting" => ~ENABLED (PressEnter /\ inflight' > inflight)

\* C15: token and serverUrl are non-null exactly when connectionState is
\* "connected": the page is never "disconnected" or "connecting" while it
\* still holds a token.
C15_Original ==
    (clientToken # Null /\ serverUrl # Null) <=> connectionState = "connected"

Successful(o) == o.kind = "response" /\ o.ok /\ o.parses

\* C16, as stated: once the fetch of a connect attempt has settled the page
\* has left "connecting": it is "connecting" only while a fetch is pending.
C16_Original ==
    connectionState = "connecting" => inflight > 0

\* C16, amended: a connect attempt leaves "connecting" when its fetch
\* rejects or the body of its response has been read or has failed to
\* parse: a successful response leads to "connected" with token and
\* serverUrl set, every other outcome to "disconnected" with an error
\* message. A fetch that resolves changes nothing until its body is read,
\* and the page is "connecting" only while an attempt is unfinished.
C16_SettledLeavesConnecting ==
    [][/\ \A o \in FetchOutcomes :
             (FetchRejects(o) \/ BodySettles(o)) =>
                 IF Successful(o)
                 THEN /\ connectionState' = "connected"
                      /\ clientToken' = o.data.token /\ clientToken' # Null
                      /\ serverUrl' = o.data.url /\ serverUrl' # Null
                 ELSE /\ connectionState' = "disconnected"
                      /\ error' # NoError
                      /\ error'.message # ""
       /\ \A ok \in BOOLEAN :
             FetchResolves(ok) =>
                 UNCHANGED <<connectionState, clientToken, serverUrl, error>>
       /\ connectionState' = "connecting" =>
             inflight' + reading'[TRUE] + reading'[FALSE] > 0]_vars

C16_Witness ==
    /\ connectionState = "disconnected"
    /\ error = ErrorMessage("Server configuration error")
    /\ inflight = 0
    /\ reading = [ok \in BOOLEAN |-> 0]
    /\ userName = <<"x">>

====
